---- MODULE Spec2Model ----
(***************************************************************************)
(* The ICA session of mne/artifacts/ica.py as a state machine.             *)
(*                                                                         *)
(* State: the ICA object (one record, fields named as in the source), the  *)
(* Raw and Epochs containers the caller works with, and the record of the  *)
(* last call (its arguments, its outcome and what it reached).             *)
(*                                                                         *)
(* Conventions.  Python's None and a never-assigned attribute are the      *)
(* empty tuple, a present value x is <<x>>.  Channel picks are positions   *)
(* 1..n in the container (the source counts from 0); _sort_idx and the     *)
(* results of argsort keep the source's 0-based values.  Numbers are exact *)
(* rationals <<n, d>> in lowest terms with d > 0.                          *)
(***************************************************************************)
EXTENDS Integers, Sequences, FiniteSets, TLC

VARIABLES ica, raw, epochs, call

vars == <<ica, raw, epochs, call>>

None == <<>>
Some(x) == <<x>>
Get(o) == o[1]

(***************************************************************************)
(* Exact rational arithmetic (numpy's float arithmetic without rounding).  *)
(***************************************************************************)
Abs(x) == IF x < 0 THEN -x ELSE x

RECURSIVE GCD(_, _)
GCD(a, b) == IF b = 0 THEN a ELSE GCD(b, a % b)

Rat(n, d) ==
  LET g == GCD(Abs(n), Abs(d))
      s == IF d < 0 THEN -1 ELSE 1
  IN  <<(s * n) \div g, (s * d) \div g>>

R(i) == <<i, 1>>
RAdd(a, b) == Rat(a[1] * b[2] + b[1] * a[2], a[2] * b[2])
RSub(a, b) == Rat(a[1] * b[2] - b[1] * a[2], a[2] * b[2])
RMul(a, b) == Rat(a[1] * b[1], a[2] * b[2])
RInv(a) == Rat(a[2], a[1])
RLeq(a, b) == a[1] * b[2] <= b[1] * a[2]

RECURSIVE RSum(_)
RSum(s) == IF s = <<>> THEN R(0) ELSE RAdd(Head(s), RSum(Tail(s)))

RECURSIVE RPow(_, _)
RPow(a, k) == IF k = 0 THEN R(1) ELSE RMul(a, RPow(a, k - 1))

\* The sequence f with every element evaluated (once).
Array(f) == SubSeq(f, 1, Len(f))

IntMat(m) == Array([i \in DOMAIN m |-> Array([j \in DOMAIN m[i] |-> R(m[i][j])])])

IsSquare(n) == n >= 0 /\ \E r \in 0..n : r * r = n
ISqrt(n) == CHOOSE r \in 0..n : r * r = n

Mean(row) == RMul(RSum(row), Rat(1, Len(row)))

\* The k-th central moment of a row (scipy.stats.moment along the sample axis).
Moment(row, k) ==
  LET mean == Mean(row)
  IN  Mean(Array([j \in DOMAIN row |-> RPow(RSub(row[j], mean), k)]))

\* np.std(row): defined in the rationals when the variance is a rational square.
HasStd(row) ==
  LET var == Moment(row, 2) IN IsSquare(var[1]) /\ IsSquare(var[2])
Std(row) ==
  LET var == Moment(row, 2) IN <<ISqrt(var[1]), ISqrt(var[2])>>

\* x[idx] for a 0-based index array idx (numpy fancy indexing on the first axis).
Take(x, idx) == Array([i \in 1..Len(idx) |-> x[idx[i] + 1]])

\* np.arange(n)
arange(n) == Array([i \in 1..n |-> i - 1])

(***************************************************************************)
(* The collaborators: containers, scoring functions, the estimator.        *)
(***************************************************************************)
ChNames == <<"a", "b", "c">>

\* A recording of three channels and seven samples.  Over the samples 0..5
\* the standard deviations are 2, 1 and 1, the first channel is skewed to
\* the right and the second to the left.
RawData ==
  IntMat(<< <<0, 0, 2, 2, 2, 6, 1>>,
            <<2, 0, 3, 2, 3, 2, 1>>,
            <<1, -1, 1, -1, 1, -1, 0>> >>)

\* Two epochs of the first two channels, three samples each.
EpochsData ==
  << IntMat(<< <<0, 0, 2>>, <<2, 0, 3>> >>),
     IntMat(<< <<2, 2, 6>>, <<2, 3, 2>> >>) >>

Idx(v) == [kind |-> "idx", v |-> v]
Mask(v) == [kind |-> "mask", v |-> v]
Previous == [kind |-> "previous", v |-> <<>>]
NonePicks == [kind |-> "None", v |-> <<>>]

\* The channel positions an index array or a boolean mask selects, in order.
RECURSIVE Where(_, _)
Where(mask, i) ==
  IF i > Len(mask) THEN <<>>
  ELSE (IF mask[i] THEN <<i>> ELSE <<>>) \o Where(mask, i + 1)

Positions(picks) == IF picks.kind = "mask" THEN Where(picks.v, 1) ELSE picks.v

\* np.array(pickable.ch_names)[picks]
NamesAt(pickable, picks) ==
  Array([i \in 1..Len(Positions(picks)) |-> pickable.ch_names[Positions(picks)[i]]])

\* Every picked position is a channel of the container (indexing a
\* container with any other position raises IndexError).
InRange(pickable, picks) ==
  \A i \in DOMAIN Positions(picks) : Positions(picks)[i] \in DOMAIN pickable.ch_names

\* raw.last_samp, for a recording whose first sample is sample 0
last_samp(r) == Len(r.data[1]) - 1

\* raw[picks, start:stop][0]: the picked rows, the samples start..stop-1
GetItem(r, picks, start, stop) ==
  Array([i \in 1..Len(Positions(picks)) |->
           SubSeq(r.data[Positions(picks)[i]], start + 1, stop)])

\* scipy.stats.skew orders rows as sign(m3) * m3^2 / m2^3 does (the strictly
\* increasing map x -> sign(x) * x^2 applied to m3 / m2^1.5); a row of zero
\* variance scores 0.
skew(row) ==
  LET m2 == Moment(row, 2)
      m3 == Moment(row, 3)
      sq == RMul(RMul(m3, m3), RInv(RPow(m2, 3)))
  IN  IF m2[1] = 0 THEN R(0)
      ELSE IF m3[1] < 0 THEN RSub(R(0), sq) ELSE sq

\* scipy.stats.kurtosis (Fisher): m4 / m2^2 - 3, and -3 for a row of zero variance
kurtosis(row) ==
  LET m2 == Moment(row, 2)
  IN  IF m2[1] = 0 THEN R(-3)
      ELSE RSub(RMul(Moment(row, 4), RInv(RMul(m2, m2))), R(3))

\* Sort criteria a caller may pass: the three names, a string that names
\* nothing, np.var (parameters a, axis, ...), and two callables whose
\* parameters are not (a, axis).
Str(name) == [kind |-> "str", name |-> name, args |-> <<>>]
Func(name, args) == [kind |-> "func", name |-> name, args |-> args]
VarFunc == Func("var", <<"a", "axis">>)
OneArgFunc == Func("absmax", <<"x">>)
OtherArgsFunc == Func("rms", <<"x", "y">>)
SortMethods ==
  {Str("skew"), Str("kurtosis"), Str("unsorted"), Str("bogus"),
   VarFunc, OneArgFunc, OtherArgsFunc}

\* sort_func(sources, 1) for the functions that can be called
Scores(name, sources) ==
  Array([k \in DOMAIN sources |->
           CASE name = "skew" -> skew(sources[k])
             [] name = "kurtosis" -> kurtosis(sources[k])
             [] OTHER -> Moment(sources[k], 2)])

\* The 0-based permutations of n rows.
Perms0(n) ==
  {p \in [1..n -> 0..(n - 1)] : \A i, j \in 1..n : p[i] = p[j] => i = j}

\* np.argsort(scores): an index array that puts the scores in ascending
\* order.  The default sort kind is not stable, so equal scores may come out
\* in any order.
ArgSorts(scores) ==
  {p \in Perms0(Len(scores)) :
     \A i \in 1..(Len(scores) - 1) : RLeq(scores[p[i] + 1], scores[p[i + 1] + 1])}

\* What FastICA.fit may leave behind on two features: an unmixing matrix
\* and its inverse (get_mixing_matrix is the pseudo-inverse of the unmixing
\* matrix).  The estimator is opaque; the fit picks one.
Unmixings ==
  { [unmixing |-> IntMat(<< <<0, 1>>, <<1, 0>> >>),
     mixing   |-> IntMat(<< <<0, 1>>, <<1, 0>> >>)],
    [unmixing |-> IntMat(<< <<1, 1>>, <<0, 1>> >>),
     mixing   |-> IntMat(<< <<1, -1>>, <<0, 1>> >>)] }

Transpose(m) == Array([j \in DOMAIN m[1] |-> Array([i \in DOMAIN m |-> m[i][j]])])

\* np.dot of two matrices
MatMul(a, b) ==
  Array([i \in DOMAIN a |->
           Array([j \in DOMAIN b[1] |->
                    RSum(Array([k \in DOMAIN b |-> RMul(a[i][k], b[k][j])]))])])

(***************************************************************************)
(* Results of the methods.  A method maps the session s it is called on to *)
(* the session it leaves, how it ended (exc = "none", or the exception     *)
(* that escaped it), what it returned, and what it reached on the way.     *)
(* A method that calls np.argsort has one result for each index array      *)
(* argsort may return, so the methods are set-valued.  exc = "inexact"     *)
(* marks data this model's arithmetic cannot follow (a row whose standard  *)
(* deviation is zero or irrational); no action takes such a call.          *)
(***************************************************************************)
RetNone == [kind |-> "None", v |-> <<>>]
RetSelf == [kind |-> "self", v |-> <<>>]
Sources(m) == [kind |-> "sources", v |-> m]
IndexArray(p) == [kind |-> "index_array", v |-> p]
Container(kind, data) == [kind |-> kind, v |-> data]

Res(s, exc, msg, ret) ==
  [s |-> s, exc |-> exc, msg |-> msg, ret |-> ret,
   resolved |-> None, read |-> None, whiten_arg |-> None,
   whitened |-> FALSE, transformed |-> FALSE,
   sort_args |-> None, resorted |-> FALSE, recon |-> None, recon_after |-> None,
   written |-> None]

Ok(s, ret) == Res(s, "none", "", ret)

\* The messages of the ValueErrors the class raises.
NoRawFitted == "Currently no raw data fitted.Please fit raw data first."
NoEpochsFitted == "Currently no epochs fitted.Please fit epochs first."
PicksMismatch == "Channel picks have to match the previous fit."
CountMismatch == "Sources have to match the number of components"

\* A guard that turns away only the unfitted session, as the guards of
\* get_sources_raw and get_sources_epochs do.
WrongFit_unfitted_only(s, kind) == s.last_fit = "unfitted"

\* A comparison by identity that no string object satisfies.
Unfitted_never_identical(s) == FALSE

\* self.last_fit is 'unfitted', the guard of get_sources_raw and get_sources_epochs
Unfitted(s) == s.last_fit = "unfitted"

\* self.last_fit != 'raw', self.last_fit != 'epochs'
WrongFit(s, kind) == s.last_fit # kind
Raise(s, exc, msg) == Res(s, exc, msg, RetNone)

\* ICA.ch_names: the fitted names, or a message string that no list of
\* names equals.
ch_names(s) == s._channs

\* np.in1d(np.array(pickable.ch_names), self._channs)
in1d(names, channs) ==
  Array([i \in DOMAIN names |->
           channs # None /\ \E j \in DOMAIN Get(channs) : Get(channs)[j] = names[i]])

_check_picks(s, pickable, picks) ==
  IF picks.kind = "None" THEN [exc |-> "none", out |-> NonePicks]
  ELSE IF picks.kind = "previous"
       THEN [exc |-> "none", out |-> Mask(in1d(pickable.ch_names, s._channs))]
  ELSE IF Some(NamesAt(pickable, picks)) # ch_names(s)
       THEN [exc |-> "ValueError", out |-> NonePicks]
  ELSE [exc |-> "none", out |-> picks]

\* data is the value returned, arg the array that was passed in as it is
\* after the call: "data *= pre_whitener" scales that array in place.
_pre_whiten(s, data, picks) ==
  IF s.noise_cov # None
  THEN IF Len(data) # Get(s.noise_cov)
       THEN [exc |-> "AssertionError", msg |-> "", data |-> data, arg |-> data,
             pre_whitener |-> <<>>]
       ELSE [exc |-> "AttributeError", msg |-> "raw", data |-> data, arg |-> data,
             pre_whitener |-> <<>>]
  ELSE IF \E c \in DOMAIN data : ~HasStd(data[c]) \/ Moment(data[c], 2)[1] = 0
       THEN [exc |-> "inexact", msg |-> "", data |-> data, arg |-> data,
             pre_whitener |-> <<>>]
  ELSE LET std_chan == Array([c \in DOMAIN data |-> RInv(Std(data[c]))])
           scaled == Array([c \in DOMAIN data |->
                        Array([j \in DOMAIN data[c] |-> RMul(data[c][j], std_chan[c])])])
       IN  [exc |-> "none", msg |-> "", data |-> scaled, arg |-> scaled,
            pre_whitener |-> std_chan]

_get_raw_data(r, picks, start, stop) ==
  GetItem(r, picks,
          IF start = None THEN 0 ELSE Get(start),
          IF stop = None THEN last_samp(r) ELSE Get(stop))

\* np.hstack(data): the epochs side by side along the sample axis
RECURSIVE hstack(_)
hstack(ms) ==
  IF Len(ms) = 1 THEN ms[1]
  ELSE LET rest == hstack(Tail(ms))
       IN  Array([c \in DOMAIN ms[1] |-> ms[1][c] \o rest[c]])

_get_epochs_data(e) == hstack(e.data)

\* The unmixing matrices a fit of this session's estimator may reach on data.
Fits(s, data) ==
  {f \in Unmixings :
     /\ Len(f.unmixing[1]) = Len(data)
     /\ s.n_components # None => Len(f.unmixing) = Get(s.n_components)}

\* The fit of a call that fails before it reaches the estimator.
NoFit == [unmixing |-> <<>>, mixing |-> <<>>]

_fit_data(s, data, fit) ==
  [s EXCEPT !._fast_ica = Some(fit.unmixing),
            !.mixing = Some(Transpose(fit.mixing))]

\* self._fast_ica.transform(data.T).T
_get_sources(s, data) == MatMul(Get(s._fast_ica), data)

_get_sort_method(sort_method) ==
  IF sort_method = Str("skew") THEN [exc |-> "none", name |-> "skew"]
  ELSE IF sort_method = Str("kurtosis") THEN [exc |-> "none", name |-> "kurtosis"]
  ELSE IF sort_method = Str("unsorted") THEN [exc |-> "none", name |-> "unsorted"]
  ELSE IF sort_method.kind = "func" /\ Len(sort_method.args) > 1
          /\ SubSeq(sort_method.args, 1, 2) = <<"a", "axis">>
       THEN [exc |-> "none", name |-> sort_method.name]
  ELSE [exc |-> "UnboundLocalError", name |-> ""]

\* The sources reordered by the accumulated index of the session.
ReturnedSources_by_sort_idx(s, sources, sort_args) == Take(sources, Get(s._sort_idx))

\* return sources[sort_args]
ReturnedSources(s, sources, sort_args) == Take(sources, sort_args)

sort_sources(s, sources, sort_method) ==
  IF Some(Len(sources)) # s.n_components
  THEN {Raise(s, "ValueError", CountMismatch)}
  ELSE IF s.last_fit = "unfitted" THEN {Ok(s, RetNone)}
  ELSE LET sort_func == _get_sort_method(sort_method)
       IN  IF sort_func.exc # "none" THEN {Raise(s, sort_func.exc, "sort_func")}
           ELSE IF sort_func.name = "unsorted"
                THEN {Raise(s, "AttributeError", "source_ids")}
           ELSE {LET s1 == [s EXCEPT !._sort_idx = Some(Take(Get(@), sort_args)),
                                      !.sorted_by = sort_func.name,
                                      !._last_sort = Tail(Append(@, Some(sort_func.name)))]
                 IN  [Ok(s1, Sources(ReturnedSources(s1, sources, sort_args)))
                      EXCEPT !.sort_args = Some(sort_args)] :
                   sort_args \in ArgSorts(Scores(sort_func.name, sources))}

decompose_raw(s, r, picks, start, stop, fit) ==
  LET s1 == [s EXCEPT !._sort_idx =
                        Some(IF s.n_components # None
                             THEN arange(Get(s.n_components))
                             ELSE arange(Len(picks.v)))]
      data == _get_raw_data(r, picks, start, stop)
      w == _pre_whiten(s1, data, picks)
  IN  IF ~InRange(r, picks) THEN Raise(s1, "IndexError", "picks")
      ELSE IF w.exc # "none"
      THEN [Raise(s1, w.exc, w.msg) EXCEPT !.read = Some(data)]
      ELSE LET s2 == [s1 EXCEPT !.pre_whitener = Some(w.pre_whitener)]
               s3 == _fit_data(s2, w.data, fit)
           IN  [Ok([s3 EXCEPT !.last_fit = "raw",
                              !._channs = Some(NamesAt(r, picks))],
                   RetSelf)
                EXCEPT !.read = Some(data), !.whiten_arg = Some(w.arg),
                       !.whitened = TRUE, !.resolved = Some(NamesAt(r, picks))]

decompose_epochs(s, e, picks, fit) ==
  LET data == _get_epochs_data(e)
      picks1 == IF picks.kind = "None" THEN e.picks ELSE picks
  IN  IF s.n_components = None
      THEN [Raise(s, "AttributeError", "picks") EXCEPT !.read = Some(data)]
      ELSE LET s1 == [s EXCEPT !._sort_idx = Some(arange(Get(s.n_components)))]
               w == _pre_whiten(s1, data, e.picks)
           IN  IF w.exc # "none"
               THEN [Raise(s1, w.exc, w.msg) EXCEPT !.read = Some(data)]
               ELSE LET s2 == [s1 EXCEPT !.pre_whitener = Some(w.pre_whitener)]
                        s3 == _fit_data(s2, w.data, fit)
                    IN  [Ok([s3 EXCEPT !.last_fit = "epochs",
                                       !._channs = Some(NamesAt(e, picks1))],
                            RetSelf)
                         EXCEPT !.read = Some(data), !.whiten_arg = Some(w.arg),
                                !.whitened = TRUE,
                                !.resolved = Some(NamesAt(e, picks1))]

\* transform on an estimator that was never fitted raises AttributeError (the
\* estimator has no unmixing matrix yet).
get_sources_raw(s, r, picks, start, stop, sort_method) ==
  IF Unfitted(s) THEN {Ok(s, RetNone)}
  ELSE LET cp == _check_picks(s, r, picks)
           data == _get_raw_data(r, cp.out, start, stop)
           w == _pre_whiten(s, data, cp.out)
       IN  IF cp.exc # "none"
           THEN {Raise(s, cp.exc, PicksMismatch)}
           ELSE IF w.exc # "none"
                THEN {[Raise(s, w.exc, w.msg)
                       EXCEPT !.resolved = Some(NamesAt(r, cp.out)), !.read = Some(data)]}
           ELSE IF s._fast_ica = None
                THEN {[Raise(s, "AttributeError", "unmixing_matrix_")
                       EXCEPT !.resolved = Some(NamesAt(r, cp.out)), !.read = Some(data),
                              !.whiten_arg = Some(w.arg),
                              !.whitened = TRUE, !.transformed = TRUE]}
           ELSE {[g EXCEPT !.resolved = Some(NamesAt(r, cp.out)), !.read = Some(data),
                           !.whiten_arg = Some(w.arg),
                           !.whitened = TRUE, !.transformed = TRUE] :
                   g \in sort_sources(s, _get_sources(s, w.data), sort_method)}

\* Line 187 calls _get_raw_data(epochs, picks) without start and stop, which
\* the method requires: the call raises TypeError before anything is read.
get_sources_epochs(s, e, picks, sort_method) ==
  IF Unfitted(s) THEN {Ok(s, RetNone)}
  ELSE LET cp == _check_picks(s, e, picks)
       IN  IF cp.exc # "none"
           THEN {Raise(s, cp.exc, PicksMismatch)}
           ELSE {Raise(s, "TypeError", "_get_raw_data")}

\* self._last_sort[0] not in (None, sort_method)
SortDiffers(s, sort_method) ==
  /\ s._last_sort[1] # None
  /\ ~(sort_method.kind = "str" /\ s._last_sort[1] = Some(sort_method.name))

\* The session after "pre_whitener **= -1" and "mixing *= pre_whitener.T"
\* applied to the session's own arrays.
ScaledInPlace(s, mixing, pre_whitener) ==
  [s EXCEPT !.mixing = Some(mixing), !.pre_whitener = Some(pre_whitener)]

\* The session after the same two statements applied to self.mixing.copy()
\* and self.pre_whitener.copy(): the stored arrays are not touched.
ScaledCopies(s, mixing, pre_whitener) == s

\* out is the value returned, arg the sources array that was passed in as
\* it is after the call ("sources[bads, :] = 0." zeroes its rows in place),
\* s the session after the call.
_pick_sources(s, sources, bads, picks) ==
  LET pre_whitener ==
        Array([c \in DOMAIN Get(s.pre_whitener) |-> RInv(Get(s.pre_whitener)[c])])
      mixing == Array([k \in DOMAIN Get(s.mixing) |->
                   Array([c \in DOMAIN Get(s.mixing)[k] |->
                      RMul(Get(s.mixing)[k][c], pre_whitener[c])])])
      zeroed == Array([k \in DOMAIN sources.v |->
                   IF \E b \in DOMAIN bads : bads[b] + 1 = k
                   THEN Array([j \in DOMAIN sources.v[k] |-> R(0)])
                   ELSE sources.v[k]])
      s1 == ScaledCopies(s, mixing, pre_whitener)
  IN  IF s.noise_cov # None
      THEN [exc |-> "inexact", out |-> RetNone, arg |-> sources, s |-> s]
      ELSE IF sources.kind = "index_array"
           THEN IF bads # <<>>
                THEN [exc |-> "IndexError", out |-> RetNone, arg |-> sources, s |-> s1]
                ELSE [exc |-> "none", s |-> s1,
                      out |-> [kind |-> "vector",
                               v |-> Array([c \in DOMAIN mixing[1] |->
                                        RSum(Array([k \in DOMAIN mixing |->
                                                RMul(R(sources.v[k]), mixing[k][c])]))])],
                      arg |-> sources]
      ELSE [exc |-> "none", s |-> s1,
            out |-> [kind |-> "matrix",
                     v |-> Transpose(MatMul(Transpose(zeroed), mixing))],
            arg |-> Sources(zeroed)]

\* raw[picks, start:stop] = value: numpy assigns when the value's shape is
\* the block's shape or broadcasts to it, and raises ValueError otherwise.
SetItem(r, picks, start, stop, value) ==
  LET lo == IF start = None THEN 0 ELSE Get(start)
      hi == IF stop = None THEN Len(r.data[1]) ELSE Get(stop)
      pos == Positions(picks)
      fits == IF value.kind = "vector"
              THEN Len(value.v) = hi - lo \/ Len(value.v) = 1
              ELSE /\ Len(value.v) = Len(pos) \/ Len(value.v) = 1
                   /\ Len(value.v[1]) = hi - lo \/ Len(value.v[1]) = 1
      At(i, j) == IF value.kind = "vector"
                  THEN value.v[IF Len(value.v) = 1 THEN 1 ELSE j]
                  ELSE value.v[IF Len(value.v) = 1 THEN 1 ELSE i]
                              [IF Len(value.v[1]) = 1 THEN 1 ELSE j]
      Row(c) == IF \E i \in DOMAIN pos : pos[i] = c
                THEN LET i == CHOOSE i \in DOMAIN pos : pos[i] = c
                     IN  Array([n \in DOMAIN r.data[c] |->
                            IF lo < n /\ n <= hi THEN At(i, n - lo) ELSE r.data[c][n]])
                ELSE r.data[c]
  IN  IF fits THEN [exc |-> "none", lo |-> lo, hi |-> hi,
                    data |-> Array([c \in DOMAIN r.data |-> Row(c)])]
      ELSE [exc |-> "ValueError", lo |-> lo, hi |-> hi, data |-> r.data]

\* Lines 224-236 and 273-287: what pick_sources_* does with the result g of
\* its get_sources_* call.
Reorder(g, sort_method) ==
  IF SortDiffers(g.s, sort_method)
  THEN {[g EXCEPT !.resorted = TRUE, !.ret = IndexArray(sort_args2)] :
          sort_args2 \in ArgSorts(Scores(_get_sort_method(sort_method).name, g.ret.v))}
  ELSE {g}

pick_sources_raw(s, r, bads, picks, start, stop, copy, sort_method) ==
  IF WrongFit(s, "raw")
  THEN {Raise(s, "ValueError", NoRawFitted)}
  ELSE LET cp == _check_picks(s, r, picks)
           Recompose(h) ==
             LET p == _pick_sources(h.s, h.ret, bads, cp.out)
                 w == SetItem(r, cp.out, start, stop, p.out)
                 reached == [h EXCEPT !.s = p.s, !.recon = Some(h.ret),
                                      !.recon_after = Some(p.arg), !.ret = RetNone]
             IN  IF p.exc # "none"
                 THEN [reached EXCEPT !.exc = p.exc, !.msg = "_pick_sources"]
                 ELSE IF w.exc # "none"
                      THEN [reached EXCEPT !.exc = w.exc, !.msg = "shape mismatch",
                                           !.written = Some(<<w.lo, w.hi>>)]
                 ELSE [reached EXCEPT !.ret = Container("raw", w.data),
                                      !.written = Some(<<w.lo, w.hi>>)]
       IN  IF cp.exc # "none"
           THEN {Raise(s, cp.exc, PicksMismatch)}
           ELSE UNION {IF g.exc # "none" THEN {g}
                       ELSE {Recompose(h) : h \in Reorder(g, sort_method)} :
                         g \in get_sources_raw(s, r, cp.out, start, stop, sort_method)}

pick_sources_epochs(s, e, bads, picks, copy, sort_method) ==
  LET picks1 == IF picks.kind = "None" THEN e.picks
                ELSE IF picks.kind = "previous" THEN _check_picks(s, e, picks).out
                ELSE picks
      Recompose(h) ==
        LET p == _pick_sources(h.s, h.ret, bads, picks1)
            reached == [h EXCEPT !.s = p.s, !.recon = Some(h.ret),
                                 !.recon_after = Some(p.arg), !.ret = RetNone]
        IN  IF p.exc # "none"
            THEN [reached EXCEPT !.exc = p.exc, !.msg = "_pick_sources"]
            ELSE [reached EXCEPT !.ret = Container("epochs", <<p.out.v>>)]
  IN  IF WrongFit(s, "epochs")
      THEN {Raise(s, "ValueError", NoEpochsFitted)}
      ELSE UNION {IF g.exc # "none" THEN {g}
                  ELSE {Recompose(h) : h \in Reorder(g, sort_method)} :
                    g \in get_sources_epochs(s, e, Previous, Str("skew"))}

(***************************************************************************)
(* The state machine.  ica is the session, raw and epochs the caller's     *)
(* containers, call the method call that has just ended (op = "idle" when  *)
(* the caller has dropped its result): its arguments, the session before   *)
(* it, and its result.                                                     *)
(***************************************************************************)
__init__(noise_cov, n_components) ==
  [noise_cov |-> noise_cov, n_components |-> n_components,
   last_fit |-> "unfitted", sorted_by |-> "unsorted",
   _channs |-> None, _last_sort |-> <<None>>,
   _sort_idx |-> None, mixing |-> None, pre_whitener |-> None, _fast_ica |-> None]

\* What callers pass.  In the arguments of a call, from names the call whose
\* return value is passed as sources ("" for sources of the caller's own).
FitPicks == {Idx(<<1, 2>>), Idx(<<2, 1>>), Idx(<<1, 3>>)}
RawPicks == FitPicks \cup {Idx(<<1, 2, 4>>)}
PickChoices == FitPicks \cup {Previous}
EpochsPickChoices == {NonePicks, Previous, Idx(<<1, 2>>), Idx(<<1, 3>>)}
SliceChoices == {<<None, None>>, <<Some(0), Some(last_samp([data |-> RawData]))>>}
BadsChoices == {<<>>, <<0>>}
SourcesChoices ==
  {IntMat(<< <<0, 0, 1, 3>>, <<1, 0, 1, 0>> >>),
   IntMat(<< <<0, 1, 0, 1>>, <<1, 0, 1, 0>> >>),
   IntMat(<< <<0, 0, 1, 3>> >>)}

NoArgs ==
  [picks |-> NonePicks, start |-> None, stop |-> None, bads |-> <<>>,
   copy |-> TRUE, sort_method |-> Str("skew"), sources |-> <<>>, from |-> ""]

Call(op, args, pre, res) ==
  [op |-> op, args |-> args, pre |-> pre,
   exc |-> res.exc, msg |-> res.msg, ret |-> res.ret,
   resolved |-> res.resolved, read |-> res.read, whiten_arg |-> res.whiten_arg,
   whitened |-> res.whitened, recon_after |-> res.recon_after,
   transformed |-> res.transformed, sort_args |-> res.sort_args,
   resorted |-> res.resorted, recon |-> res.recon, written |-> res.written]

Idle(s) == Call("idle", NoArgs, s, Ok(s, RetNone))

Init ==
  /\ ica \in {__init__(noise_cov, n_components) :
                noise_cov \in {None, Some(2)}, n_components \in {None, Some(2)}}
  /\ raw = [ch_names |-> ChNames, data |-> RawData]
  /\ epochs = [ch_names |-> ChNames, picks |-> Idx(<<1, 2>>), data |-> EpochsData]
  /\ call = Idle(ica)

DecomposeRaw ==
  /\ call.op = "idle"
  /\ \E picks \in RawPicks, sl \in SliceChoices :
       \E fit \in IF InRange(raw, picks)
                  THEN Fits(ica, _get_raw_data(raw, picks, sl[1], sl[2]))
                  ELSE {NoFit} :
         \E res \in {decompose_raw(ica, raw, picks, sl[1], sl[2], fit)} :
           /\ res.exc # "inexact"
           /\ ica' = res.s
           /\ call' = Call("decompose_raw",
                           [NoArgs EXCEPT !.picks = picks, !.start = sl[1], !.stop = sl[2]],
                           ica, res)
  /\ UNCHANGED <<raw, epochs>>

DecomposeEpochs ==
  /\ call.op = "idle"
  /\ \E picks \in {NonePicks, Idx(<<1, 2>>)} :
       \E fit \in Fits(ica, _get_epochs_data(epochs)) :
         \E res \in {decompose_epochs(ica, epochs, picks, fit)} :
           /\ res.exc # "inexact"
           /\ ica' = res.s
           /\ call' = Call("decompose_epochs", [NoArgs EXCEPT !.picks = picks], ica, res)
  /\ UNCHANGED <<raw, epochs>>

GetSourcesRaw ==
  /\ call.op = "idle"
  /\ \E picks \in PickChoices, sl \in SliceChoices, sort_method \in SortMethods :
       \E res \in get_sources_raw(ica, raw, picks, sl[1], sl[2], sort_method) :
         /\ res.exc # "inexact"
         /\ ica' = res.s
         /\ call' = Call("get_sources_raw",
                         [NoArgs EXCEPT !.picks = picks, !.start = sl[1], !.stop = sl[2],
                                        !.sort_method = sort_method],
                         ica, res)
  /\ UNCHANGED <<raw, epochs>>

GetSourcesEpochs ==
  /\ call.op = "idle"
  /\ \E picks \in EpochsPickChoices, sort_method \in SortMethods :
       \E res \in get_sources_epochs(ica, epochs, picks, sort_method) :
         /\ ica' = res.s
         /\ call' = Call("get_sources_epochs",
                         [NoArgs EXCEPT !.picks = picks, !.sort_method = sort_method],
                         ica, res)
  /\ UNCHANGED <<raw, epochs>>

\* With copy = False the caller's recording is the one written to.
PickSourcesRaw ==
  /\ call.op = "idle"
  /\ \E bads \in BadsChoices, picks \in PickChoices, sl \in SliceChoices,
        copy \in BOOLEAN, sort_method \in SortMethods :
       \E res \in pick_sources_raw(ica, raw, bads, picks, sl[1], sl[2], copy, sort_method) :
         /\ res.exc # "inexact"
         /\ ica' = res.s
         /\ raw' = IF res.exc = "none" /\ ~copy
                   THEN [raw EXCEPT !.data = res.ret.v] ELSE raw
         /\ call' = Call("pick_sources_raw",
                         [NoArgs EXCEPT !.picks = picks, !.start = sl[1], !.stop = sl[2],
                                        !.bads = bads, !.copy = copy,
                                        !.sort_method = sort_method],
                         ica, res)
  /\ UNCHANGED epochs

PickSourcesEpochs ==
  /\ call.op = "idle"
  /\ \E bads \in BadsChoices, picks \in EpochsPickChoices, copy \in BOOLEAN,
        sort_method \in SortMethods :
       \E res \in pick_sources_epochs(ica, epochs, bads, picks, copy, sort_method) :
         /\ ica' = res.s
         /\ call' = Call("pick_sources_epochs",
                         [NoArgs EXCEPT !.picks = picks, !.bads = bads, !.copy = copy,
                                        !.sort_method = sort_method],
                         ica, res)
  /\ UNCHANGED <<raw, epochs>>

\* sort_sources called by the user, on sources of the user's own ...
SortSources ==
  /\ call.op = "idle"
  /\ \E sources \in SourcesChoices, sort_method \in SortMethods :
       \E res \in sort_sources(ica, sources, sort_method) :
         /\ ica' = res.s
         /\ call' = Call("sort_sources",
                         [NoArgs EXCEPT !.sources = sources, !.sort_method = sort_method],
                         ica, res)
  /\ UNCHANGED <<raw, epochs>>

\* ... or on the sources the call before returned.
SortReturned ==
  /\ call.ret.kind = "sources"
  /\ \E sort_method \in SortMethods :
       \E res \in sort_sources(ica, call.ret.v, sort_method) :
         /\ ica' = res.s
         /\ call' = Call("sort_sources",
                         [NoArgs EXCEPT !.sources = call.ret.v, !.from = call.op,
                                        !.sort_method = sort_method],
                         ica, res)
  /\ UNCHANGED <<raw, epochs>>

\* The caller drops the result of the last call, and with it a recording
\* that was written in place: the next call is given the recording as it
\* was loaded.
Return ==
  /\ call.op # "idle"
  /\ call' = Idle(ica)
  /\ raw' = [raw EXCEPT !.data = RawData]
  /\ UNCHANGED <<ica, epochs>>

Next ==
  \/ DecomposeRaw
  \/ DecomposeEpochs
  \/ GetSourcesRaw
  \/ GetSourcesEpochs
  \/ PickSourcesRaw
  \/ PickSourcesEpochs
  \/ SortSources
  \/ SortReturned
  \/ Return

Spec == Init /\ [][Next]_vars

(***************************************************************************)
(* Properties.                                                             *)
(***************************************************************************)
\* The call that has just ended ran sort_sources to its end (directly or
\* inside get_sources_raw).
Sorted == call.op # "idle" /\ call.sort_args # None

\* The call got as far as reconstruction.
Reconstructed == call.recon # None

\* C1: pick_sources_raw succeeds only on a session whose last fit was on raw
\* data and pick_sources_epochs only on one whose last fit was on epochs; on
\* every other session the call raises the ValueError of its guard, reads,
\* whitens and transforms nothing, and leaves the session as it was.
C1_PickRequiresMatchingFit ==
  /\ (call.op = "pick_sources_raw" /\ call.pre.last_fit # "raw") =>
       /\ call.exc = "ValueError" /\ call.msg = NoRawFitted
       /\ call.read = None /\ ~call.whitened /\ ~call.transformed
       /\ ica = call.pre /\ raw.data = RawData
  /\ (call.op = "pick_sources_epochs" /\ call.pre.last_fit # "epochs") =>
       /\ call.exc = "ValueError" /\ call.msg = NoEpochsFitted
       /\ call.read = None /\ ~call.whitened /\ ~call.transformed
       /\ ica = call.pre /\ raw.data = RawData
  /\ (call.op = "pick_sources_raw" /\ call.exc = "none") => call.pre.last_fit = "raw"
  /\ (call.op = "pick_sources_epochs" /\ call.exc = "none") => call.pre.last_fit = "epochs"

\* pick_sources_raw was called on a session fitted on epochs and turned away.
C1_Witness ==
  /\ call.op = "pick_sources_raw" /\ call.pre.last_fit = "epochs"
  /\ call.exc = "ValueError" /\ call.msg = NoRawFitted

\* C2: get_sources_raw on a session whose last fit was on epochs raises a
\* ValueError and returns no sources; get_sources_epochs on a session whose
\* last fit was on raw data raises and returns no sources.
C2_GetSourcesRequiresMatchingFit ==
  /\ (call.op = "get_sources_raw" /\ call.pre.last_fit = "epochs") =>
       call.exc = "ValueError" /\ call.ret.kind # "sources"
  /\ (call.op = "get_sources_epochs" /\ call.pre.last_fit = "raw") =>
       call.exc # "none" /\ call.ret.kind # "sources"

\* The names explicit picks select from the container of the call.
PickedNames == NamesAt([ch_names |-> ChNames], call.args.picks)

\* C3: on a session fitted for the operation, a call of get_sources_raw,
\* get_sources_epochs, pick_sources_raw or pick_sources_epochs whose explicit
\* picks select names other than the fitted names, in order, raises the
\* channel-mismatch ValueError and reaches neither whitening, transform nor
\* reconstruction.
C3_MismatchingPicksRejected ==
  ( /\ \/ call.op \in {"get_sources_raw", "pick_sources_raw"} /\ call.pre.last_fit = "raw"
       \/ call.op \in {"get_sources_epochs", "pick_sources_epochs"}
          /\ call.pre.last_fit = "epochs"
    /\ call.args.picks.kind = "idx"
    /\ Some(PickedNames) # call.pre._channs )
  => /\ call.exc = "ValueError" /\ call.msg = PicksMismatch
     /\ ~call.whitened /\ ~call.transformed /\ ~Reconstructed

\* C4: on a session fitted on raw data, whatever the order of the picks of
\* the fit, get_sources_raw and pick_sources_raw with picks = 'previous'
\* resolve the picks to the fitted names in the order of the fit and do not
\* raise the channel-mismatch ValueError.
C4_PreviousResolvesToFitOrder ==
  ( /\ call.op \in {"get_sources_raw", "pick_sources_raw"}
    /\ call.pre.last_fit = "raw"
    /\ call.args.picks = Previous )
  => /\ ~(call.exc = "ValueError" /\ call.msg = PicksMismatch)
     /\ call.resolved = call.pre._channs

\* C5: on a session created with n_components = None (and no noise
\* covariance), a fit on C picked channels completes and sets the component
\* count to C, and a following get_sources_raw on the fitted channels does
\* not fail the component-count check of sort_sources.
C5_ComponentCountInferred ==
  /\ ( /\ call.op \in {"decompose_raw", "decompose_epochs"}
       /\ call.pre.n_components = None /\ call.pre.noise_cov = None
       /\ InRange([ch_names |-> ChNames], call.args.picks) )
     => /\ call.exc = "none"
        /\ ica._channs # None
        /\ ica.n_components = Some(Len(Get(ica._channs)))
  /\ ( /\ call.op = "get_sources_raw" /\ call.transformed
       /\ call.pre.last_fit = "raw" /\ call.args.picks = Previous )
     => ~(call.exc = "ValueError" /\ call.msg = CountMismatch)

\* C6: with standardization whitening, as many components as channels, an
\* estimator whose mixing matrix is the inverse of its unmixing matrix and
\* no bad components, pick_sources_raw with the default sort criterion on
\* the recording, channels and samples of the fit returns the recording
\* unchanged.
C6_RoundTrip ==
  ( /\ call.op = "pick_sources_raw"
    /\ call.pre.last_fit = "raw" /\ call.pre.noise_cov = None
    /\ call.pre.n_components = Some(2)
    /\ call.pre._channs = Some(NamesAt([ch_names |-> ChNames], Idx(<<1, 2>>)))
    /\ call.args.picks = Idx(<<1, 2>>)
    /\ call.args.start # None /\ call.args.stop # None
    /\ call.args.bads = <<>>
    /\ call.args.sort_method = Str("skew") )
  => /\ call.exc = "none"
     /\ call.ret.kind = "raw"
     /\ call.ret.v = RawData

\* sort_sources has sorted the sources the call before it returned (which
\* that call had sorted by call.pre.sorted_by).
SortedAgain == call.op = "sort_sources" /\ call.args.from # "" /\ Sorted

\* C7: the sort history holds the labels of the last two sorts, in order:
\* after a sort that follows another sort it is the label of the sort before
\* followed by the label of this sort (kurtosis then skew leaves
\* <<kurtosis, skew>>).
C7_HistoryHoldsLastTwo ==
  SortedAgain => ica._last_sort = <<Some(call.pre.sorted_by), Some(ica.sorted_by)>>

\* The criterion of the call is the one the session was last sorted by.
SameCriterion ==
  call.args.sort_method.kind = "str" /\ call.args.sort_method.name = call.pre.sorted_by

\* C8: in a pick_sources_* call on a suitably fitted session that reaches
\* reconstruction, when the criterion differs from the session's sort label
\* the sources are sorted by it and reconstruction is still handed the
\* components-by-samples matrix; when the criterion is the session's sort
\* label nothing is sorted again and _sort_idx is as before the call.
C8_ResortOnlyWhenCriterionDiffers ==
  ( /\ call.op \in {"pick_sources_raw", "pick_sources_epochs"}
    /\ Reconstructed )
  => /\ ~SameCriterion =>
          /\ Get(call.recon).kind = "sources"
          /\ ica.sorted_by = call.args.sort_method.name
     /\ SameCriterion =>
          /\ ~call.resorted
          /\ ica._sort_idx = call.pre._sort_idx

\* sort_sources has been called with the criterion by which the sort_sources
\* call before it had sorted, on the sources that call returned.
SortRepeated ==
  /\ call.op = "sort_sources" /\ call.args.from = "sort_sources"
  /\ _get_sort_method(call.args.sort_method).exc = "none"
  /\ _get_sort_method(call.args.sort_method).name = call.pre.sorted_by

\* The second sort left _sort_idx and the row order as they were.
SecondSortChangedNothing ==
  /\ call.exc = "none"
  /\ call.ret.kind = "sources"
  /\ call.ret.v = call.args.sources
  /\ ica._sort_idx = call.pre._sort_idx

\* No two rows of the sources of the call have the same score.
DistinctScores ==
  LET scores == Scores(call.pre.sorted_by, call.args.sources)
  IN  \A i, j \in DOMAIN scores : scores[i] = scores[j] => i = j

\* C9 as stated: when sort_sources has sorted sources by a criterion and is
\* called again with the same criterion on the sources it returned, the
\* second call leaves _sort_idx and the row order of the sources unchanged.
C9_SortIdempotent == SortRepeated => SecondSortChangedNothing

\* C9, amended: the same, for sources no two rows of which have the same
\* score under the criterion.
C9_SortIdempotentOnDistinctScores ==
  (SortRepeated /\ DistinctScores) => SecondSortChangedNothing

\* A repeated sort of sources with distinct scores, on a session whose first
\* sort had reordered the rows.
C9_Witness ==
  /\ SortRepeated /\ DistinctScores /\ Sorted
  /\ call.pre._sort_idx = Some(<<1, 0>>)

\* C10: on a fitted session, sort_sources with the criterion 'unsorted' on
\* sources of n_components rows completes, returns the sources in the order
\* given, leaves _sort_idx unchanged and records 'unsorted' as the label.
C10_UnsortedIsIdentity ==
  ( /\ call.op = "sort_sources"
    /\ call.pre.last_fit # "unfitted"
    /\ call.args.sort_method = Str("unsorted")
    /\ Some(Len(call.args.sources)) = call.pre.n_components )
  => /\ call.exc = "none"
     /\ call.ret.kind = "sources"
     /\ call.ret.v = call.args.sources
     /\ ica._sort_idx = call.pre._sort_idx
     /\ ica.sorted_by = "unsorted"

\* The criterion of the call is none the class accepts: a string other than
\* the three names, or a callable whose first two parameters are not (a, axis).
InvalidCriterion ==
  \/ /\ call.args.sort_method.kind = "str"
     /\ call.args.sort_method.name \notin {"skew", "kurtosis", "unsorted"}
  \/ /\ call.args.sort_method.kind = "func"
     /\ \/ Len(call.args.sort_method.args) < 2
        \/ SubSeq(call.args.sort_method.args, 1, 2) # <<"a", "axis">>

\* C11: sort_sources, called on a fitted session with sources of
\* n_components rows and an invalid criterion, raises ValueError and leaves
\* _sort_idx, sorted_by and _last_sort as they were.
C11_InvalidCriterionRejected ==
  ( /\ call.op = "sort_sources"
    /\ call.pre.last_fit # "unfitted"
    /\ Some(Len(call.args.sources)) = call.pre.n_components
    /\ InvalidCriterion )
  => /\ call.exc = "ValueError"
     /\ ica._sort_idx = call.pre._sort_idx
     /\ ica.sorted_by = call.pre.sorted_by
     /\ ica._last_sort = call.pre._last_sort

\* C12: sort_sources on an unfitted session, whatever the sources and the
\* criterion, raises nothing, returns None and leaves the session as it was.
C12_UnfittedSortIsNoOp ==
  (call.op = "sort_sources" /\ call.pre.last_fit = "unfitted")
  => /\ call.exc = "none"
     /\ call.ret.kind = "None"
     /\ ica = call.pre

\* C13: the estimator's transform is only reached on a fitted session:
\* get_sources_raw, get_sources_epochs, pick_sources_raw and
\* pick_sources_epochs on an unfitted session return None or raise without
\* reading, whitening or transforming anything, and leave the session as it
\* was.
C13_NoTransformBeforeFit ==
  /\ (call.op # "idle" /\ call.transformed) => call.pre.last_fit # "unfitted"
  /\ ( /\ call.op \in {"get_sources_raw", "get_sources_epochs",
                       "pick_sources_raw", "pick_sources_epochs"}
       /\ call.pre.last_fit = "unfitted" )
     => /\ call.ret.kind = "None"
        /\ call.exc \in {"none", "ValueError"}
        /\ call.op \in {"get_sources_raw", "get_sources_epochs"} <=> call.exc = "none"
        /\ call.read = None /\ ~call.whitened /\ ~call.transformed
        /\ ica = call.pre

\* get_sources_raw was called on an unfitted session and returned None.
C13_Witness ==
  /\ call.op = "get_sources_raw" /\ call.pre.last_fit = "unfitted"
  /\ call.exc = "none" /\ call.ret.kind = "None"

\* C14: after every fit call that completed, also a re-fit of a session that
\* had been sorted, sorted_by is 'unsorted' and _last_sort holds no label.
C14_FitResetsSortState ==
  (call.op \in {"decompose_raw", "decompose_epochs"} /\ call.exc = "none")
  => /\ ica.sorted_by = "unsorted"
     /\ \A i \in DOMAIN ica._last_sort : ica._last_sort[i] = None

\* The number of components of the stored decomposition (the rows of the
\* unmixing matrix).
ActiveComponents == Len(Get(ica._fast_ica))

IsPermutation(idx, n) ==
  /\ Len(idx) = n
  /\ \A k \in 0..(n - 1) : \E i \in DOMAIN idx : idx[i] = k

\* C15: on a fitted session _sort_idx is a permutation of 0..K-1, K the
\* number of components of the decomposition; it is the identity right after
\* a fit that completed, and a sort that completed replaces it by its
\* composition with the index array of the sort.
C15_SortIdxIsPermutation ==
  /\ ica.last_fit # "unfitted" =>
       ica._sort_idx # None /\ IsPermutation(Get(ica._sort_idx), ActiveComponents)
  /\ (call.op \in {"decompose_raw", "decompose_epochs"} /\ call.exc = "none") =>
       ica._sort_idx = Some(arange(ActiveComponents))
  /\ Sorted =>
       ica._sort_idx = Some(Take(Get(call.pre._sort_idx), Get(call.sort_args)))

\* C16: the mixing matrix and the whitener are both set exactly when the
\* session is fitted, and a fit call on a fitted session that ends in an
\* error leaves the whitener, _sort_idx and the fitted channel names of the
\* stored decomposition as they were.
C16_DecompositionIsConsistent ==
  /\ (ica.mixing # None /\ ica.pre_whitener # None) <=> ica.last_fit # "unfitted"
  /\ ( /\ call.op \in {"decompose_raw", "decompose_epochs"}
       /\ call.exc # "none"
       /\ call.pre.last_fit # "unfitted" )
     => /\ ica.mixing = call.pre.mixing
        /\ ica.pre_whitener = call.pre.pre_whitener
        /\ ica._sort_idx = call.pre._sort_idx
        /\ ica._channs = call.pre._channs

\* C17: get_sources_raw, get_sources_epochs, sort_sources, pick_sources_raw
\* and pick_sources_epochs, however they end, leave last_fit, the fitted
\* channel names, the mixing matrix, the whitener and the estimator as they
\* were.
C17_OnlyFitsChangeDecomposition ==
  call.op \in {"get_sources_raw", "get_sources_epochs", "sort_sources",
               "pick_sources_raw", "pick_sources_epochs"}
  => /\ ica.last_fit = call.pre.last_fit
     /\ ica._channs = call.pre._channs
     /\ ica.mixing = call.pre.mixing
     /\ ica.pre_whitener = call.pre.pre_whitener
     /\ ica._fast_ica = call.pre._fast_ica

\* pick_sources_raw has reconstructed a recording with a component zeroed,
\* on a session whose whitener is not the identity.
C17_Witness ==
  /\ call.op = "pick_sources_raw" /\ call.exc = "none"
  /\ call.args.bads # <<>>
  /\ \E c \in DOMAIN Get(ica.pre_whitener) : Get(ica.pre_whitener)[c] # R(1)

\* C18: no stage changes the array it is given: after _pre_whiten the data
\* array passed to it is as it was read, and after _pick_sources with a
\* non-empty bads the sources array passed to it is as it was.
C18_StagesLeaveInputsUnchanged ==
  /\ (call.op # "idle" /\ call.whiten_arg # None) => call.whiten_arg = call.read
  /\ (call.op # "idle" /\ call.recon_after # None /\ call.args.bads # <<>>) =>
       call.recon_after = call.recon

\* C19: after a get_sources_raw call that returned sorted sources, _sort_idx
\* describes the rows returned: entry i is the fit-time index of the
\* component in row i, which is the argsort the call applied to the
\* fit-ordered output of the transform. Called twice with the same criterion
\* on the same data, _sort_idx is that one permutation, not it applied twice.
C19_SortIdxDescribesReturnedSources ==
  (call.op = "get_sources_raw" /\ Sorted /\ call.exc = "none") =>
     ica._sort_idx = call.sort_args

\* C20: in a pick_sources_raw call that reaches the write with a
\* components-by-samples reconstruction, the sample range written is the
\* sample range read, for every start and stop, the defaults included: the
\* slice assigned to has as many samples as were read, and the assignment
\* does not fail on a shape mismatch.
C20_WriteRangeIsReadRange ==
  (/\ call.op = "pick_sources_raw"
   /\ call.written # None
   /\ Get(call.recon).kind = "sources") =>
     /\ Get(call.written)[2] - Get(call.written)[1] = Len(Get(call.read)[1])
     /\ call.exc = "none"

====
